---- MODULE Spec2Model ----
(***************************************************************************)
(* A model of the batch inner-transaction status resolver of               *)
(* src/lib/getBatchTxStatus.ts: the fan-out of one 'tx' request per input  *)
(* pair, the per-lookup classification of the response, and the fan-in     *)
(* through Promise.all.                                                    *)
(***************************************************************************)
EXTENDS Integers, Sequences, FiniteSets, TLC

\* ------------------------------------------------------------------ bounds
\* Longest input list innerTxHashes that is explored.
MaxN == 3

\* --------------------------------------------------------- JavaScript values
\* A primitive value with the tag typeof reports (null kept apart from objects).
JSString(s) == [type |-> "string", value |-> s]
JSNumber(s) == [type |-> "number", value |-> s]
JSUndefined == [type |-> "undefined", value |-> "undefined"]

\* The values result.meta can hold; keys and TransactionResult describe an object.
MetaUndefined ==
    [type |-> "undefined", value |-> "", keys |-> {}, TransactionResult |-> JSUndefined]
MetaNull ==
    [type |-> "null", value |-> "", keys |-> {}, TransactionResult |-> JSUndefined]
MetaString(s) ==
    [type |-> "string", value |-> s, keys |-> {}, TransactionResult |-> JSUndefined]
MetaObject(ks, tr) ==
    [type |-> "object", value |-> "", keys |-> ks, TransactionResult |-> tr]

\* JavaScript truthiness of a value (what `res.result.meta &&` tests).
Truthy(v) ==
    /\ v.type \notin {"undefined", "null"}
    /\ ~(v.type = "string" /\ v.value = "")

\* typeof v: null reports "object".
TypeOf(v) == IF v.type = "null" THEN "object" ELSE v.type

\* 'k' in v, for v an object.
HasKey(v, k) == k \in v.keys

\* ------------------------------------------------- outcomes of client.request
\* The request promise rejects (transaction not found, connection error).
Rejected == [settle |-> "reject", hasResult |-> FALSE, meta |-> MetaUndefined]
\* The request promise resolves with a response that has no result member.
ResolvedNoResult == [settle |-> "resolve", hasResult |-> FALSE, meta |-> MetaUndefined]
\* The request promise resolves with a response whose result.meta is m.
Resolved(m) == [settle |-> "resolve", hasResult |-> TRUE, meta |-> m]

\* Result codes a ledger reports, and a TransactionResult that is not a string.
Codes == {"tesSUCCESS", "tecUNFUNDED_PAYMENT"}
MalformedCode == JSNumber("0")

Metas ==
    {MetaUndefined, MetaNull, MetaString("201C"), MetaObject({"AffectedNodes"}, JSUndefined)}
      \cup {MetaObject({"AffectedNodes", "TransactionResult"}, JSString(c)) : c \in Codes}
      \cup {MetaObject({"TransactionResult"}, MalformedCode)}

Outcomes == {Rejected, ResolvedNoResult} \cup {Resolved(m) : m \in Metas}

\* ------------------------------------------------------------------- inputs
Hashes == {"AAA", "BBB"}
Indexes == {1, 2}
\* The pairs a list is drawn from: one hash under two indexes, one index under
\* two hashes.
Descriptors == [hash : Hashes, index : Indexes] \ {[hash |-> "BBB", index |-> 1]}

\* All sequences over S of length at most n.
SeqsUpTo(S, n) == UNION {[1..k -> S] : k \in 0..n}

\* -------------------------------------------------------------------- state
VARIABLES
    innerTxHashes,  \* the input list of {hash, index} pairs
    ledger,         \* what the node answers to a 'tx' request, per hash
    hung,           \* the position of the lookup that never completes, 0 for none
    pc,             \* where getBatchTxStatus is: mapping, awaiting, returned, rejected
    next,           \* the position map() calls the callback for next
    sent,           \* every request handed to client.request, in order
    promises,       \* the promise each callback returned
    results,        \* the value getBatchTxStatus resolved with
    calls,          \* the lists returned by the calls completed so far
    lastSettled     \* the position of the lookup that settled last, 0 for none

\* The state of one script function (sendXRP, batchAllOrNothing, ...).
VARIABLES
    script,            \* the script function that runs, "none" for none
    ip,                \* the position in the script's program
    phase,             \* ready, awaiting (an SDK call), finally, done
    inflight,          \* the number of SDK calls started and not yet settled
    client,            \* the connection: new, connected, disconnected
    trace,             \* the SDK and library calls made, in the order of their start
    lastResult,        \* result.meta of the last submitAndWait response
    submitted,         \* result.meta of every transaction submitted and validated
    validated,         \* how the last validateTransactionResult call ended
    innerTransactions, \* the local inner transactions of a batch script
    batchTxData,       \* the response to the 'tx' request for the outer batch
    innerTxStatuses,   \* what getBatchTxStatus returned to the script
    ret,               \* the value the script function resolves with
    disconnects,       \* how often client.disconnect() was called
    thrown,            \* the step whose error was caught last, "none" for none
    exitCode,          \* the exit code of the process, Running while it runs
    accountNFTs,       \* the account_nfts of the response batchNFTMintAndBurn got
    nftokenIDs,        \* the NFTokenIDs batchNFTMintAndBurn is going to burn
    latestEscrow,      \* account_objects[0] of the response an escrow script got
    currentTime        \* the current time in Ripple seconds as the script read it

\* What the scripts read from the account, the ledger and the clock.
dataVars == <<exitCode, accountNFTs, nftokenIDs, latestEscrow, currentTime>>

scriptVars ==
    <<script, ip, phase, inflight, client, trace, lastResult, submitted, validated,
      innerTransactions, batchTxData, innerTxStatuses, ret, disconnects, thrown,
      dataVars>>

resolverVars ==
    <<innerTxHashes, ledger, hung, pc, next, sent, promises, results, calls,
      lastSettled>>

vars == <<resolverVars, scriptVars>>

N == Len(innerTxHashes)

\* ------------------------------------------------------- the map() callback
\* The request object of lines 24-27.
RequestFirstHash(tx) == [command |-> "tx", transaction |-> innerTxHashes[1].hash]
RequestSubmit(tx) == [command |-> "submit", transaction |-> tx.hash]
Request(tx) == [command |-> "tx", transaction |-> tx.hash]

\* What the node answers to a request.
Respond(l, req) == l[req.transaction]

\* The record of lines 52-57 (the catch block).
NotValidated(tx) ==
    [hash |-> tx.hash, index |-> tx.index, successful |-> FALSE,
     status |-> JSString("not validated")]

\* The record of lines 45-50.
Unknown(tx) ==
    [hash |-> tx.hash, index |-> tx.index, successful |-> FALSE,
     status |-> JSString("unknown")]

\* isSuccess of line 35.
IsSuccessIfPresent(meta) == HasKey(meta, "TransactionResult")
IsSuccess(meta) == meta.TransactionResult = JSString("tesSUCCESS")

\* The record of lines 37-42.
Classified(tx, meta) ==
    [hash |-> tx.hash, index |-> tx.index, successful |-> IsSuccess(meta),
     status |-> meta.TransactionResult]

\* The condition of lines 29-33.
HasResultCode(meta) ==
    /\ Truthy(meta)
    /\ TypeOf(meta) = "object"
    /\ HasKey(meta, "TransactionResult")

\* The try block, lines 24-50: either it throws or it returns a record.
\* Reading res.result.meta of a response without result is a TypeError.
TryBlock(tx, out) ==
    IF out.settle = "reject" THEN [threw |-> TRUE, value |-> Unknown(tx)]
    ELSE IF ~out.hasResult THEN [threw |-> TRUE, value |-> Unknown(tx)]
    ELSE IF HasResultCode(out.meta)
         THEN [threw |-> FALSE, value |-> Classified(tx, out.meta)]
         ELSE [threw |-> FALSE, value |-> Unknown(tx)]

\* The promise of a callback that has not settled.
Pending(tx) == [state |-> "pending", value |-> Unknown(tx)]

\* The settled promise of the async callback, lines 22-59: the catch block
\* turns every throw of the try block into a record.
CallbackWithoutCatch(tx, out) ==
    LET body == TryBlock(tx, out)
    IN  IF body.threw
        THEN [state |-> "rejected", value |-> Unknown(tx)]
        ELSE [state |-> "fulfilled", value |-> body.value]
Callback(tx, out) ==
    LET body == TryBlock(tx, out)
    IN  IF body.threw
        THEN [state |-> "fulfilled", value |-> NotValidated(tx)]
        ELSE [state |-> "fulfilled", value |-> body.value]

\* The record the callback of one lookup resolves with.
TryOrCatch(tx, out) == Callback(tx, out).value

\* ---------------------------------------------------------------- Promise.all
\* Promise.all resolves when every promise is fulfilled.
AnyFulfilled(ps) == ps = <<>> \/ \E i \in 1..Len(ps) : ps[i].state = "fulfilled"
AllFulfilled(ps) == \A i \in 1..Len(ps) : ps[i].state = "fulfilled"
\* Promise.all rejects when one promise is rejected.
AnyRejected(ps) == \E i \in 1..Len(ps) : ps[i].state = "rejected"

\* The array Promise.all resolves with: the values in the order of the promises.
AggregateSuccessfulOnly(ps) ==
    SelectSeq([i \in 1..Len(ps) |-> ps[i].value], LAMBDA r : r.successful)
Aggregate(ps) == [i \in 1..Len(ps) |-> ps[i].value]

\* What a call ends with: a normal return or a thrown error.
Returned == [threw |-> FALSE, name |-> "none", message |-> "none"]
Thrown(n, m) == [threw |-> TRUE, name |-> n, message |-> m]
NotCalled == [threw |-> FALSE, name |-> "none", message |-> "not called"]

\* ------------------------------------------------------------------ actions
\* The exit code of a process that has not exited.
Running == 0 - 1

\* A JavaScript number: NaN or an integer.
NaN == [nan |-> TRUE, n |-> 0]
Num(k) == [nan |-> FALSE, n |-> k]

\* account_objects[0] when no escrow was read.
NoEscrow ==
    [index |-> "none", FinishAfter |-> JSUndefined, CancelAfter |-> JSUndefined,
     Condition |-> JSUndefined]

\* The response to the 'tx' request for the outer batch when none was made.
NoBatchTxData == [settle |-> "none", shape |-> "none", entries |-> <<>>]

\* No script function runs: getBatchTxStatus is looked at on its own.
NoScript ==
    /\ script = "none"
    /\ ip = 0
    /\ phase = "done"
    /\ inflight = 0
    /\ client = "new"
    /\ trace = <<>>
    /\ lastResult = MetaUndefined
    /\ submitted = <<>>
    /\ validated = NotCalled
    /\ innerTransactions = <<>>
    /\ batchTxData = NoBatchTxData
    /\ innerTxStatuses = <<>>
    /\ ret = "none"
    /\ disconnects = 0
    /\ thrown = "none"
    /\ exitCode = Running
    /\ accountNFTs = <<>>
    /\ nftokenIDs = <<>>
    /\ latestEscrow = NoEscrow
    /\ currentTime = NaN

\* getBatchTxStatus has just been called: map() is about to start.
Called ==
    /\ pc = "mapping"
    /\ next = 1
    /\ sent = <<>>
    /\ promises = <<>>
    /\ results = <<>>
    /\ calls = <<>>
    /\ lastSettled = 0

\* Any input list, any answers of the node, every lookup able to complete.
Init ==
    /\ innerTxHashes \in SeqsUpTo(Descriptors, MaxN)
    /\ ledger \in [Hashes -> Outcomes]
    /\ hung = 0
    /\ Called
    /\ NoScript

\* map() goes through the list without waiting for any callback's promise.
CanIssueAfterPrevious ==
    /\ pc = "mapping"
    /\ next <= N
    /\ \A i \in 1..Len(promises) : promises[i].state # "pending"
CanIssue ==
    /\ pc = "mapping"
    /\ next <= N

\* map() calls the callback for the next element: it runs up to its await,
\* so the request is handed to the client and the callback's promise is pending.
Issue ==
    /\ CanIssue
    /\ sent' = Append(sent, Request(innerTxHashes[next]))
    /\ promises' = Append(promises, Pending(innerTxHashes[next]))
    /\ next' = next + 1
    /\ UNCHANGED <<innerTxHashes, ledger, hung, pc, results, calls, lastSettled>>
    /\ UNCHANGED scriptVars

\* map() is done: the list of promises goes to Promise.all, which is awaited.
AwaitAll ==
    /\ pc = "mapping"
    /\ next = N + 1
    /\ pc' = "awaiting"
    /\ UNCHANGED <<innerTxHashes, ledger, hung, next, sent, promises, results, calls,
                   lastSettled>>
    /\ UNCHANGED scriptVars

\* The request of lookup i settles and the rest of its callback runs.
Settle(i) ==
    /\ pc = "awaiting"
    /\ i \in 1..Len(promises)
    /\ promises[i].state = "pending"
    /\ i # hung
    /\ promises' = [promises EXCEPT
                      ![i] = Callback(innerTxHashes[i],
                                      Respond(ledger, sent[Len(sent) - N + i]))]
    /\ lastSettled' = i
    /\ UNCHANGED <<innerTxHashes, ledger, hung, pc, next, sent, results, calls>>
    /\ UNCHANGED scriptVars

\* Promise.all settles: it rejects with the first rejection, and resolves
\* with the aggregated values once every promise is fulfilled (line 21, 62).
PromiseAll ==
    /\ pc = "awaiting"
    /\ AnyRejected(promises) \/ AllFulfilled(promises)
    /\ IF AnyRejected(promises)
       THEN /\ pc' = "rejected"
            /\ UNCHANGED <<results, calls>>
       ELSE /\ pc' = "returned"
            /\ results' = Aggregate(promises)
            /\ calls' = Append(calls, Aggregate(promises))
    /\ UNCHANGED <<innerTxHashes, ledger, hung, next, sent, promises, lastSettled>>
    /\ UNCHANGED scriptVars

\* The caller calls getBatchTxStatus a second time with the same list.
CallAgain ==
    /\ pc = "returned"
    /\ Len(calls) = 1
    /\ pc' = "mapping"
    /\ next' = 1
    /\ promises' = <<>>
    /\ results' = <<>>
    /\ lastSettled' = 0
    /\ UNCHANGED <<innerTxHashes, ledger, hung, sent, calls>>
    /\ UNCHANGED scriptVars

Next ==
    \/ Issue
    \/ AwaitAll
    \/ \E i \in 1..MaxN + 1 : Settle(i)
    \/ PromiseAll
    \/ CallAgain

Spec == Init /\ [][Next]_vars

\* The same calls when one lookup may never complete: every other lookup
\* settles, and the event loop runs every continuation that is ready.
FairOutcomes ==
    {Rejected, Resolved(MetaUndefined),
     Resolved(MetaObject({"AffectedNodes", "TransactionResult"}, JSString("tesSUCCESS")))}

InitFair ==
    /\ innerTxHashes \in SeqsUpTo(Descriptors, MaxN)
    /\ ledger \in [Hashes -> FairOutcomes]
    /\ hung \in 0..Len(innerTxHashes)
    /\ Called
    /\ NoScript

Fairness ==
    /\ WF_vars(Issue)
    /\ WF_vars(AwaitAll)
    /\ \A i \in 1..MaxN + 1 : WF_vars(Settle(i))
    /\ WF_vars(PromiseAll)
    /\ WF_vars(CallAgain)

FairSpec == InitFair /\ [][Next]_vars /\ Fairness

\* ------------------------------------------------------------ script functions
\* The number of inner transactions of a batch.
MaxRaw == 2

\* The number of NFTs batchNFTMintAndBurn mints in one batch (8 in the script).
MaxMint == 2

\* The steps of each script function, in the order of its try block.  The steps
\* connect, autofill, submitAndWait, request, requestTolerant, tx and
\* getBatchTxStatus are awaited; the others run synchronously.
sendXRP ==
    <<"fromSeed", "connect", "build", "autofill", "sign", "submitAndWait",
      "validateTransactionResult", "returnTrue">>

\* The second definition of sendXRP in the same file.
sendXRP2 ==
    <<"fromSeed", "connect", "build", "autofill", "sign", "submitAndWait",
      "returnTrue">>

sendIOUOutsider ==
    <<"guard", "fromSeed", "connect", "build", "autofill", "sign", "submitAndWait",
      "validateTransactionResult", "returnTrue">>

createEscrow ==
    <<"connect", "fromSeed", "request", "build", "submitAndWait",
      "validateTransactionResult", "request", "returnTrue">>

mptokenIssuanceDestroy ==
    <<"fromSeed", "connect", "guard", "requestTolerant", "build", "autofill", "sign",
      "submitAndWait", "validateTransactionResult", "returnTrue">>

nftokenDynamic ==
    <<"fromSeed", "connect", "build", "autofill", "sign", "submitAndWait",
      "validateTransactionResult", "guard",
      "build", "autofill", "sign", "submitAndWait",
      "validateTransactionResult", "returnTrue">>

batchOnlyOneUnvalidated ==
    <<"fromSeed", "connect", "build", "autofill", "sign", "submitAndWait",
      "tx", "RawTransactions", "hashSignedTx", "innerTxHashes.length",
      "getBatchTxStatus", "returnTrue">>
batchOnlyOne ==
    <<"fromSeed", "connect", "build", "autofill", "sign", "submitAndWait",
      "validateTransactionResult", "tx", "RawTransactions", "hashSignedTx",
      "innerTxHashes.length", "getBatchTxStatus", "returnTrue">>

batchUntilFailureChecked ==
    <<"fromSeed", "connect", "build", "autofill", "sign", "submitAndWait",
      "validateTransactionResult", "tx", "RawTransactions", "hashSignedTx",
      "innerTxHashes.length", "getBatchTxStatus", "failedTxs", "returnTrue">>
batchUntilFailure == batchOnlyOne

batchIndependent == batchOnlyOne

batchAllOrNothing ==
    <<"fromSeed", "connect", "build", "autofill", "sign", "submitAndWait",
      "validateTransactionResult", "tx", "RawTransactions", "hashSignedTx",
      "innerTxHashes.length", "getBatchTxStatus", "failedTxs", "returnTrue">>

batchNFTBurn == batchOnlyOne

\* Step 1 mints NFTs in one batch, step 2 reads the NFTokenIDs of the account,
\* step 3 burns them in a second batch, step 4 checks the burn batch.
batchNFTMintAndBurn ==
    <<"fromSeed", "connect", "build", "autofill", "sign", "submitAndWait",
      "validateTransactionResult", "account_nfts", "slice", "nftokenIDs.length",
      "build", "autofill", "sign", "submitAndWait",
      "validateTransactionResult", "tx", "RawTransactions", "hashSignedTx",
      "innerTxHashes.length", "getBatchTxStatus", "returnTrue">>

\* The escrow scripts: each reads the first escrow object of the account.
finishEscrow ==
    <<"connect", "fromSeed", "account_objects", "account_objects.length",
      "rippleTimeToISOTime(FinishAfter)", "isoTimeToRippleTime",
      "currentTime < FinishAfter", "request", "build", "Condition",
      "submitAndWait", "validateTransactionResult", "request", "returnTrue">>

finishTokenEscrow ==
    <<"connect", "fromSeed", "account_objects", "account_objects.length",
      "rippleTimeToISOTime(FinishAfter)", "isoTimeToRippleTime",
      "currentTime < FinishAfter", "request", "request", "build", "Condition",
      "submitAndWait", "validateTransactionResult", "request", "returnTrue">>

finishConditionalEscrow ==
    <<"connect", "fromSeed", "account_objects", "account_objects.length",
      "!Condition", "isoTimeToRippleTime", "!isNaN && currentTime < FinishAfter",
      "request", "build",
      "submitAndWait", "validateTransactionResult", "request", "returnTrue">>

cancelEscrow ==
    <<"connect", "fromSeed", "account_objects", "account_objects.length",
      "rippleTimeToISOTime(FinishAfter)", "rippleTimeToISOTime(CancelAfter)",
      "isoTimeToRippleTime", "currentTime < CancelAfter", "request", "build",
      "fromSeed", "submitAndWait", "validateTransactionResult", "request",
      "returnTrue">>

cancelTokenEscrow ==
    <<"connect", "fromSeed", "account_objects", "account_objects.length",
      "rippleTimeToISOTime(FinishAfter)", "rippleTimeToISOTime(CancelAfter)",
      "isoTimeToRippleTime", "currentTime < CancelAfter", "request", "request",
      "build", "submitAndWait", "validateTransactionResult", "request",
      "returnTrue">>

FinishScripts == {"finishEscrow", "finishTokenEscrow", "finishConditionalEscrow"}
CancelScripts == {"cancelEscrow", "cancelTokenEscrow"}

BatchScripts ==
    {"batchAllOrNothing", "batchOnlyOne", "batchUntilFailure", "batchIndependent",
     "batchNFTBurn", "batchNFTMintAndBurn"}

Scripts ==
    BatchScripts \cup FinishScripts \cup CancelScripts \cup
        {"sendXRP", "sendXRP2", "sendIOUOutsider", "createEscrow",
         "mptokenIssuanceDestroy", "nftokenDynamic"}

Program(s) ==
    CASE s = "sendXRP" -> sendXRP
      [] s = "sendXRP2" -> sendXRP2
      [] s = "sendIOUOutsider" -> sendIOUOutsider
      [] s = "createEscrow" -> createEscrow
      [] s = "mptokenIssuanceDestroy" -> mptokenIssuanceDestroy
      [] s = "nftokenDynamic" -> nftokenDynamic
      [] s = "batchAllOrNothing" -> batchAllOrNothing
      [] s = "batchOnlyOne" -> batchOnlyOne
      [] s = "batchUntilFailure" -> batchUntilFailure
      [] s = "batchIndependent" -> batchIndependent
      [] s = "batchNFTBurn" -> batchNFTBurn
      [] s = "finishEscrow" -> finishEscrow
      [] s = "finishTokenEscrow" -> finishTokenEscrow
      [] s = "finishConditionalEscrow" -> finishConditionalEscrow
      [] s = "cancelEscrow" -> cancelEscrow
      [] s = "cancelTokenEscrow" -> cancelTokenEscrow
      [] s = "batchNFTMintAndBurn" -> batchNFTMintAndBurn

\* The step the script function is at.
Step == IF script \in Scripts /\ ip \in 1..Len(Program(script))
        THEN Program(script)[ip] ELSE "none"

Awaited ==
    {"connect", "autofill", "submitAndWait", "request", "requestTolerant", "tx",
     "getBatchTxStatus", "account_nfts", "account_objects"}

\* ----------------------------------------------------- validateTransactionResult
\* The txResult of validateTransactionResult when the condition can be evaluated.
TxResult(meta) ==
    IF TypeOf(meta) = "object" /\ HasKey(meta, "TransactionResult")
    THEN meta.TransactionResult
    ELSE JSString("unknown")

\* validateTransactionResult(result) with result.result.meta = meta.  The in
\* operator throws a TypeError when its right operand is null.
ValidateTransactionResultOfCodes(meta) ==
    IF TxResult(meta) \in {JSString("tesSUCCESS"), JSString("unknown")}
    THEN Returned
    ELSE Thrown("Error", "Transaction failed: " \o TxResult(meta).value)
ValidateTransactionResult(meta) ==
    IF TypeOf(meta) = "object" /\ meta.type = "null"
    THEN Thrown("TypeError",
                "Cannot use 'in' operator to search for 'TransactionResult' in null")
    ELSE IF TxResult(meta) # JSString("tesSUCCESS")
         THEN Thrown("Error", "Transaction failed: " \o TxResult(meta).value)
         ELSE Returned

\* --------------------------------------------------------- the batch on ledger
\* Inner transaction i as the script builds it: Sequence is not filled in yet.
LocalTx(i) == [payload |-> i, Sequence |-> 0]

\* Inner transaction i as the ledger recorded it.
RecordedTx(i) == [payload |-> i, Sequence |-> i]

\* hashes.hashSignedTx: the hash covers every field of the transaction.
HashSignedTx(tx) == "H" \o ToString(tx.payload) \o "S" \o ToString(tx.Sequence)

\* An entry of RawTransactions: its RawTransaction is there and can be hashed
\* ("signed"), is not there ("missing"), or makes hashSignedTx throw
\* ("unhashable").
EntryKinds == {"signed", "missing", "unhashable"}
Entry(i, k) == [kind |-> k, RawTransaction |-> RecordedTx(i)]

\* The responses to the 'tx' request for the outer batch hash.
TxResponses ==
    {[settle |-> "reject", shape |-> "none", entries |-> <<>>],
     [settle |-> "resolve", shape |-> "noResult", entries |-> <<>>],
     [settle |-> "resolve", shape |-> "noTxJson", entries |-> <<>>],
     [settle |-> "resolve", shape |-> "notArray", entries |-> <<>>]}
    \cup
    {[settle |-> "resolve", shape |-> "array",
      entries |-> [i \in 1..Len(ks) |-> Entry(i, ks[i])]] :
        ks \in SeqsUpTo(EntryKinds, MaxRaw)}

\* The answers of the ledger to the lookup of a recorded inner transaction.
ScriptOutcomes ==
    {Rejected, Resolved(MetaUndefined)}
    \cup {Resolved(MetaObject({"AffectedNodes", "TransactionResult"}, JSString(c))) :
            c \in Codes}

\* Every hash a script can ask for; the ledger knows the recorded ones only.
ScriptHashes ==
    {HashSignedTx(RecordedTx(i)) : i \in 1..MaxRaw}
    \cup {HashSignedTx(LocalTx(i)) : i \in 1..MaxRaw}
ScriptLedger(g) ==
    [h \in ScriptHashes |->
        IF \E i \in 1..MaxRaw : h = HashSignedTx(RecordedTx(i))
        THEN g[CHOOSE i \in 1..MaxRaw : h = HashSignedTx(RecordedTx(i))]
        ELSE Rejected]

\* ------------------------------------------------- the hash loop of the scripts
\* The transaction the loop hashes for entry i.
InnerTxLocal(rawTransactions, i) == innerTransactions[i]
InnerTx(rawTransactions, i) == rawTransactions[i].RawTransaction

\* The index the loop records for entry i (i counts from 1 here), hs being the
\* descriptors pushed so far.
IndexByPush(hs, i) == Len(hs) + 1
Index(hs, i) == i

\* The descriptors the loop has pushed after the first n entries.
RECURSIVE HashLoop(_, _)
HashLoop(rawTransactions, n) ==
    IF n = 0 THEN <<>>
    ELSE LET hs == HashLoop(rawTransactions, n - 1)
         IN  IF rawTransactions[n].kind = "signed"
             THEN Append(hs, [hash |-> HashSignedTx(InnerTx(rawTransactions, n)),
                              index |-> Index(hs, n)])
             ELSE hs

\* failedTxs: the records that are not successful.
FailedTxsWithCode(statuses) ==
    {i \in 1..Len(statuses) :
        ~statuses[i].successful /\ statuses[i].status.value \in Codes}
FailedTxs(statuses) == {i \in 1..Len(statuses) : ~statuses[i].successful}

\* ---------------------------------------------------- the steps of a script
\* A script function has been called and new Client() has returned.
ScriptInit ==
    /\ script \in Scripts
    /\ ip = 1
    /\ phase = "ready"
    /\ inflight = 0
    /\ client = "new"
    /\ trace = <<>>
    /\ lastResult = MetaUndefined
    /\ submitted = <<>>
    /\ validated = NotCalled
    /\ innerTransactions = <<>>
    /\ batchTxData = NoBatchTxData
    /\ innerTxStatuses = <<>>
    /\ ret = "none"
    /\ disconnects = 0
    /\ thrown = "none"
    /\ exitCode = Running
    /\ accountNFTs = <<>>
    /\ nftokenIDs = <<>>
    /\ latestEscrow = NoEscrow
    /\ currentTime = NaN
    /\ innerTxHashes = <<>>
    /\ ledger = ScriptLedger([i \in 1..MaxRaw |-> Rejected])
    /\ hung = 0
    /\ pc = "idle"
    /\ next = 1
    /\ sent = <<>>
    /\ promises = <<>>
    /\ results = <<>>
    /\ calls = <<>>
    /\ lastSettled = 0

\* A statement of the try block may run: the one before it is over.  An awaited
\* call suspends the function until its promise settles.
CanStartWithoutAwait == phase \in {"ready", "awaiting"}
CanStart == phase = "ready"

\* The try block goes on with its next statement.
Continue ==
    /\ ip' = ip + 1
    /\ phase' = "ready"
    /\ ret' = ret
    /\ thrown' = thrown

\* The try block is left with return r, or by a throw the catch block turns
\* into return false: the finally block runs before the function returns.
LeaveWithoutFinally(r) ==
    /\ ip' = ip
    /\ phase' = IF r = "true" THEN "finally" ELSE "done"
    /\ ret' = r
    /\ thrown' = thrown
Leave(r) ==
    /\ ip' = ip
    /\ phase' = "finally"
    /\ ret' = r
    /\ thrown' = thrown

\* The current step threw: the catch block logs the error and returns false.
CatchReturningTrue ==
    /\ ip' = ip
    /\ phase' = "finally"
    /\ ret' = "true"
    /\ thrown' = Step
Catch ==
    /\ ip' = ip
    /\ phase' = "finally"
    /\ ret' = "false"
    /\ thrown' = Step

\* The current step threw inside a try block of its own, whose catch block
\* only logs: the function goes on.
CatchAndGoOn ==
    /\ ip' = ip + 1
    /\ phase' = "ready"
    /\ ret' = ret
    /\ thrown' = Step

\* An awaited SDK call starts: the script hands it to the client and waits.
StartCall ==
    /\ CanStart
    /\ Step \in Awaited \ {"getBatchTxStatus"}
    /\ phase' = "awaiting"
    /\ inflight' = inflight + 1
    /\ trace' = Append(trace, Step)
    /\ UNCHANGED <<script, ip, client, lastResult, submitted, validated,
                   innerTransactions, batchTxData, innerTxStatuses, ret, disconnects>>
    /\ UNCHANGED resolverVars
    /\ UNCHANGED dataVars
    /\ thrown' = thrown

\* await client.connect() settles.
Connected ==
    /\ phase = "awaiting"
    /\ Step = "connect"
    /\ inflight' = inflight - 1
    /\ \/ client' = "connected" /\ Continue
       \/ client' = client /\ Catch
    /\ UNCHANGED <<script, trace, lastResult, submitted, validated,
                   innerTransactions, batchTxData, innerTxStatuses, disconnects>>
    /\ UNCHANGED resolverVars
    /\ UNCHANGED dataVars

\* await client.autofill(tx) or a follow-up await client.request(...) settles.
\* The request of mptokenIssuanceDestroy sits in a try block of its own,
\* whose catch block only logs.
Responded ==
    /\ phase = "awaiting"
    /\ Step \in {"autofill", "request", "requestTolerant"}
    /\ inflight' = inflight - 1
    /\ \/ Continue
       \/ IF Step = "requestTolerant" THEN CatchAndGoOn ELSE Catch
    /\ UNCHANGED <<script, client, trace, lastResult, submitted, validated,
                   innerTransactions, batchTxData, innerTxStatuses, disconnects>>
    /\ UNCHANGED resolverVars
    /\ UNCHANGED dataVars

\* await client.submitAndWait(...) settles: it rejects, or it resolves with
\* the validated transaction, whatever its result code.
SubmittedAndValidated ==
    /\ phase = "awaiting"
    /\ Step = "submitAndWait"
    /\ inflight' = inflight - 1
    /\ \/ \E m \in Metas :
            /\ lastResult' = m
            /\ submitted' = Append(submitted, m)
            /\ Continue
       \/ UNCHANGED <<lastResult, submitted>> /\ Catch
    /\ UNCHANGED <<script, client, trace, validated,
                   innerTransactions, batchTxData, innerTxStatuses, disconnects>>
    /\ UNCHANGED resolverVars
    /\ UNCHANGED dataVars

\* await client.request({command: 'tx', transaction: result.result.hash})
\* settles.
TxResponded ==
    /\ phase = "awaiting"
    /\ Step = "tx"
    /\ inflight' = inflight - 1
    /\ \E r \in TxResponses :
        IF r.settle = "reject"
        THEN batchTxData' = batchTxData /\ Catch
        ELSE batchTxData' = r /\ Continue
    /\ UNCHANGED <<script, client, trace, lastResult, submitted, validated,
                   innerTransactions, innerTxStatuses, disconnects>>
    /\ UNCHANGED resolverVars
    /\ UNCHANGED dataVars

\* The NFT the account held before the run, and the NFT inner mint i created.
HeldBefore == [NFTokenID |-> "OLD"]
Minted(i) == [NFTokenID |-> "NEW" \o ToString(i)]

\* The account_nfts the ledger can answer with after the mint batch: the NFTs
\* held before, then those of the inner mints that succeeded, oldest first
\* (the first k of them: which ones failed does not change what the script does).
RECURSIVE MintedNFTs(_, _)
MintedNFTs(ok, n) ==
    IF n = 0 THEN <<>>
    ELSE IF n \in ok THEN Append(MintedNFTs(ok, n - 1), Minted(n))
         ELSE MintedNFTs(ok, n - 1)
AccountNFTs ==
    {held \o MintedNFTs(1..k, MaxMint) :
        held \in {<<>>, <<HeldBefore>>}, k \in 0..MaxMint}

\* allNFTs.slice(-8): the last NFTs of the list, at most as many as were minted.
Slice(allNFTs) ==
    IF Len(allNFTs) <= MaxMint THEN allNFTs
    ELSE SubSeq(allNFTs, Len(allNFTs) - MaxMint + 1, Len(allNFTs))

\* await client.request({command: 'account_nfts', ...}) settles.
AccountNFTsResponded ==
    /\ phase = "awaiting"
    /\ Step = "account_nfts"
    /\ inflight' = inflight - 1
    /\ \/ \E nfts \in AccountNFTs : accountNFTs' = nfts /\ Continue
       \/ accountNFTs' = accountNFTs /\ Catch
    /\ UNCHANGED <<script, client, trace, lastResult, submitted, validated,
                   innerTransactions, batchTxData, innerTxStatuses, disconnects>>
    /\ UNCHANGED <<exitCode, nftokenIDs, latestEscrow, currentTime>>
    /\ UNCHANGED resolverVars

\* The loop that collects the NFTokenIDs of the latest NFTs, and the check
\* that there is at least one.
LatestNFTs ==
    /\ CanStart
    /\ Step \in {"slice", "nftokenIDs.length"}
    /\ trace' = Append(trace, Step)
    /\ IF Step = "slice"
       THEN /\ nftokenIDs' = [k \in 1..Len(Slice(accountNFTs)) |->
                                Slice(accountNFTs)[k].NFTokenID]
            /\ Continue
       ELSE /\ nftokenIDs' = nftokenIDs
            /\ IF Len(nftokenIDs) = 0 THEN Leave("false") ELSE Continue
    /\ UNCHANGED <<script, inflight, client, lastResult, submitted, validated,
                   innerTransactions, batchTxData, innerTxStatuses, disconnects>>
    /\ UNCHANGED <<exitCode, accountNFTs, latestEscrow, currentTime>>
    /\ UNCHANGED resolverVars

\* ------------------------------------------------------------ the escrow scripts
\* The times of an escrow, in seconds since the Ripple epoch, and the last
\* reading of the clock, in half seconds.
FinishTime == 2
CancelTime == 3
MaxClock == 7
Clock == 2..MaxClock

\* The escrow objects the account can hold: FinishAfter, CancelAfter and
\* Condition are each there or not.
Escrows ==
    [index : {"E1"},
     FinishAfter : {JSUndefined, JSNumber(FinishTime)},
     CancelAfter : {JSUndefined, JSNumber(CancelTime)},
     Condition : {JSUndefined, JSString("A0258020")}]

\* Number(v) for a number or undefined.
NumberOf(v) == IF v.type = "number" THEN Num(v.value) ELSE NaN

\* a < b on JavaScript numbers: false when one of them is NaN.
Less(a, b) == ~a.nan /\ ~b.nan /\ a.n < b.n

\* isoTimeToRippleTime(new Date().toISOString()) for a clock reading in half
\* seconds: the time is rounded to the nearest second.
IsoTimeToRippleTime(h) == (h + 1) \div 2

\* rippleTimeToISOTime(t) throws a RangeError for NaN: new Date(NaN) has no
\* ISO string.
InvalidTimeNever(t) == FALSE
InvalidTime(t) == t.nan

\* The tests that make a script return false before it submits.
TooEarlyNever(t, limit) == FALSE
TooEarly(t, limit) == Less(t, limit)

HasConditionNever(e) == FALSE
HasCondition(e) == Truthy(e.Condition)

\* await client.request({command: 'account_objects', ...}) settles: it
\* throws, finds no escrow, or account_objects[0] is some escrow.
AccountObjectsResponded ==
    /\ phase = "awaiting"
    /\ Step = "account_objects"
    /\ inflight' = inflight - 1
    /\ \/ \E e \in Escrows \cup {NoEscrow} : latestEscrow' = e /\ Continue
       \/ latestEscrow' = latestEscrow /\ Catch
    /\ UNCHANGED <<script, client, trace, lastResult, submitted, validated,
                   innerTransactions, batchTxData, innerTxStatuses, disconnects>>
    /\ UNCHANGED <<exitCode, accountNFTs, nftokenIDs, currentTime>>
    /\ UNCHANGED resolverVars

\* if (escrowObjects.result.account_objects.length === 0) return false.
NoEscrowFound ==
    /\ CanStart
    /\ Step = "account_objects.length"
    /\ trace' = Append(trace, Step)
    /\ IF latestEscrow = NoEscrow THEN Leave("false") ELSE Continue
    /\ UNCHANGED <<script, inflight, client, lastResult, submitted, validated,
                   innerTransactions, batchTxData, innerTxStatuses, disconnects>>
    /\ UNCHANGED dataVars
    /\ UNCHANGED resolverVars

\* rippleTimeToISOTime(Number(latestEscrow.FinishAfter)), or of CancelAfter,
\* for the log line.
RippleTimeToISOTime ==
    /\ CanStart
    /\ Step \in {"rippleTimeToISOTime(FinishAfter)", "rippleTimeToISOTime(CancelAfter)"}
    /\ trace' = Append(trace, Step)
    /\ LET t == IF Step = "rippleTimeToISOTime(FinishAfter)"
                THEN NumberOf(latestEscrow.FinishAfter)
                ELSE NumberOf(latestEscrow.CancelAfter)
       IN  IF InvalidTime(t) THEN Catch ELSE Continue
    /\ UNCHANGED <<script, inflight, client, lastResult, submitted, validated,
                   innerTransactions, batchTxData, innerTxStatuses, disconnects>>
    /\ UNCHANGED dataVars
    /\ UNCHANGED resolverVars

\* currentTime = isoTimeToRippleTime(new Date().toISOString()).
ReadClock ==
    /\ CanStart
    /\ Step = "isoTimeToRippleTime"
    /\ trace' = Append(trace, Step)
    /\ \E h \in Clock : currentTime' = Num(IsoTimeToRippleTime(h))
    /\ Continue
    /\ UNCHANGED <<script, inflight, client, lastResult, submitted, validated,
                   innerTransactions, batchTxData, innerTxStatuses, disconnects>>
    /\ UNCHANGED <<exitCode, accountNFTs, nftokenIDs, latestEscrow>>
    /\ UNCHANGED resolverVars

\* if (currentTime < finishAfterRippleTime) return false, and the same test
\* on cancelAfterRippleTime; finishConditionalEscrow tests !isNaN first, which
\* the comparison with NaN amounts to.
TimeCheck ==
    /\ CanStart
    /\ Step \in {"currentTime < FinishAfter", "!isNaN && currentTime < FinishAfter",
                 "currentTime < CancelAfter"}
    /\ trace' = Append(trace, Step)
    /\ LET limit == IF Step = "currentTime < CancelAfter"
                    THEN NumberOf(latestEscrow.CancelAfter)
                    ELSE NumberOf(latestEscrow.FinishAfter)
       IN  IF TooEarly(currentTime, limit) THEN Leave("false") ELSE Continue
    /\ UNCHANGED <<script, inflight, client, lastResult, submitted, validated,
                   innerTransactions, batchTxData, innerTxStatuses, disconnects>>
    /\ UNCHANGED dataVars
    /\ UNCHANGED resolverVars

\* if (latestEscrow.Condition) return false in finishEscrow and
\* finishTokenEscrow; if (!latestEscrow.Condition) return false in
\* finishConditionalEscrow.
ConditionCheck ==
    /\ CanStart
    /\ Step \in {"Condition", "!Condition"}
    /\ trace' = Append(trace, Step)
    /\ IF (Step = "Condition") = HasCondition(latestEscrow)
       THEN Leave("false") ELSE Continue
    /\ UNCHANGED <<script, inflight, client, lastResult, submitted, validated,
                   innerTransactions, batchTxData, innerTxStatuses, disconnects>>
    /\ UNCHANGED dataVars
    /\ UNCHANGED resolverVars

\* Wallet.fromSeed(...) and wallet.sign(...) run synchronously and may throw.
FromSeedOrSign ==
    /\ CanStart
    /\ Step \in {"fromSeed", "sign"}
    /\ trace' = Append(trace, Step)
    /\ Continue \/ Catch
    /\ UNCHANGED <<script, inflight, client, lastResult, submitted, validated,
                   innerTransactions, batchTxData, innerTxStatuses, disconnects>>
    /\ UNCHANGED resolverVars
    /\ UNCHANGED dataVars

\* The transaction object is built; a batch script builds its inner
\* transactions first.
Build ==
    /\ CanStart
    /\ Step = "build"
    /\ trace' = Append(trace, Step)
    /\ innerTransactions' =
            IF script \in BatchScripts THEN [i \in 1..MaxRaw |-> LocalTx(i)]
            ELSE innerTransactions
    /\ Continue
    /\ UNCHANGED <<script, inflight, client, lastResult, submitted, validated,
                   batchTxData, innerTxStatuses, disconnects>>
    /\ UNCHANGED resolverVars
    /\ UNCHANGED dataVars

\* An if statement that returns false early (a missing seed or identifier).
Guard ==
    /\ CanStart
    /\ Step = "guard"
    /\ trace' = Append(trace, Step)
    /\ Continue \/ Leave("false")
    /\ UNCHANGED <<script, inflight, client, lastResult, submitted, validated,
                   innerTransactions, batchTxData, innerTxStatuses, disconnects>>
    /\ UNCHANGED resolverVars
    /\ UNCHANGED dataVars

\* validateTransactionResult(result) on the response of submitAndWait.
Validate ==
    /\ CanStart
    /\ Step = "validateTransactionResult"
    /\ trace' = Append(trace, Step)
    /\ validated' = ValidateTransactionResult(lastResult)
    /\ IF ValidateTransactionResult(lastResult).threw THEN Catch ELSE Continue
    /\ UNCHANGED <<script, inflight, client, lastResult, submitted,
                   innerTransactions, batchTxData, innerTxStatuses, disconnects>>
    /\ UNCHANGED resolverVars
    /\ UNCHANGED dataVars

\* rawTransactions = batchTxData.result.tx_json?.RawTransactions and the check
\* that it is an array.
RawTransactions ==
    /\ CanStart
    /\ Step = "RawTransactions"
    /\ trace' = Append(trace, Step)
    /\ CASE batchTxData.shape = "noResult" -> Catch
         [] batchTxData.shape \in {"noTxJson", "notArray"} -> Leave("false")
         [] OTHER -> Continue
    /\ UNCHANGED <<script, inflight, client, lastResult, submitted, validated,
                   innerTransactions, batchTxData, innerTxStatuses, disconnects>>
    /\ UNCHANGED resolverVars
    /\ UNCHANGED dataVars

\* The loop over rawTransactions that fills innerTxHashes.
HashSignedTxLoop ==
    /\ CanStart
    /\ Step = "hashSignedTx"
    /\ trace' = Append(trace, Step)
    /\ innerTxHashes' = HashLoop(batchTxData.entries, Len(batchTxData.entries))
    /\ Continue
    /\ UNCHANGED <<script, inflight, client, lastResult, submitted, validated,
                   innerTransactions, batchTxData, innerTxStatuses, disconnects>>
    /\ UNCHANGED <<ledger, hung, pc, next, sent, promises, results, calls,
                   lastSettled>>
    /\ UNCHANGED dataVars

\* innerTxHashes.length === 0.
NoneComputedNever(hs) == FALSE
NoneComputed(hs) == Len(hs) = 0

\* if (innerTxHashes.length === 0) return false.
NoHashes ==
    /\ CanStart
    /\ Step = "innerTxHashes.length"
    /\ trace' = Append(trace, Step)
    /\ IF NoneComputed(innerTxHashes) THEN Leave("false") ELSE Continue
    /\ UNCHANGED <<script, inflight, client, lastResult, submitted, validated,
                   innerTransactions, batchTxData, innerTxStatuses, disconnects>>
    /\ UNCHANGED resolverVars
    /\ UNCHANGED dataVars

\* await getBatchTxStatus(client, innerTxHashes) is called; the ledger is what
\* it has become by then, the inner transactions validated or not.
CallGetBatchTxStatus ==
    /\ CanStart
    /\ Step = "getBatchTxStatus"
    /\ phase' = "awaiting"
    /\ inflight' = inflight + 1
    /\ trace' = Append(trace, Step)
    /\ pc' = "mapping"
    /\ next' = 1
    /\ promises' = <<>>
    /\ results' = <<>>
    /\ lastSettled' = 0
    /\ UNCHANGED <<script, ip, client, lastResult, submitted, validated,
                   innerTransactions, batchTxData, innerTxStatuses, ret, disconnects>>
    /\ ledger' \in {ScriptLedger(g) : g \in [1..MaxRaw -> ScriptOutcomes]}
    /\ UNCHANGED <<innerTxHashes, hung, sent, calls>>
    /\ UNCHANGED dataVars
    /\ thrown' = thrown

\* getBatchTxStatus has settled: the script goes on with what it returned, or
\* its rejection is thrown in the script.
ReturnGetBatchTxStatus ==
    /\ phase = "awaiting"
    /\ Step = "getBatchTxStatus"
    /\ pc \in {"returned", "rejected"}
    /\ inflight' = inflight - 1
    /\ IF pc = "returned"
       THEN innerTxStatuses' = results /\ Continue
       ELSE innerTxStatuses' = innerTxStatuses /\ Catch
    /\ pc' = "idle"
    /\ UNCHANGED <<script, client, trace, lastResult, submitted, validated,
                   innerTransactions, batchTxData, disconnects>>
    /\ UNCHANGED <<innerTxHashes, ledger, hung, next, sent, promises, results, calls,
                   lastSettled>>
    /\ UNCHANGED dataVars

\* batchAllOrNothing: if (failedTxs.length > 0) ... return false.
FailedTxsCheck ==
    /\ CanStart
    /\ Step = "failedTxs"
    /\ trace' = Append(trace, Step)
    /\ IF FailedTxs(innerTxStatuses) # {} THEN Leave("false") ELSE Continue
    /\ UNCHANGED <<script, inflight, client, lastResult, submitted, validated,
                   innerTransactions, batchTxData, innerTxStatuses, disconnects>>
    /\ UNCHANGED resolverVars
    /\ UNCHANGED dataVars

\* return true at the end of the try block.
ReturnTrue ==
    /\ CanStart
    /\ Step = "returnTrue"
    /\ trace' = Append(trace, Step)
    /\ Leave("true")
    /\ UNCHANGED <<script, inflight, client, lastResult, submitted, validated,
                   innerTransactions, batchTxData, innerTxStatuses, disconnects>>
    /\ UNCHANGED resolverVars
    /\ UNCHANGED dataVars

\* The finally block: await client.disconnect().
Finally ==
    /\ phase = "finally"
    /\ phase' = "disconnecting"
    /\ inflight' = inflight + 1
    /\ disconnects' = disconnects + 1
    /\ trace' = Append(trace, "disconnect")
    /\ UNCHANGED <<script, ip, client, lastResult, submitted, validated,
                   innerTransactions, batchTxData, innerTxStatuses, ret>>
    /\ UNCHANGED resolverVars
    /\ UNCHANGED dataVars
    /\ thrown' = thrown

\* client.disconnect() settles and the function resolves with its return value.
Disconnected ==
    /\ phase = "disconnecting"
    /\ phase' = "done"
    /\ inflight' = inflight - 1
    /\ client' = "disconnected"
    /\ UNCHANGED <<script, ip, trace, lastResult, submitted, validated,
                   innerTransactions, batchTxData, innerTxStatuses, ret, disconnects>>
    /\ UNCHANGED resolverVars
    /\ UNCHANGED dataVars
    /\ thrown' = thrown

\* The script was run directly: sendXRP().then((success) => { if (!success)
\* process.exit(1) }); otherwise the process ends with exit code 0.
EntryPoint ==
    /\ phase = "done"
    /\ exitCode = Running
    /\ exitCode' = IF ret = "false" THEN 1 ELSE 0
    /\ UNCHANGED <<script, ip, phase, inflight, client, trace, lastResult, submitted,
                   validated, innerTransactions, batchTxData, innerTxStatuses, ret,
                   disconnects, thrown>>
    /\ UNCHANGED <<accountNFTs, nftokenIDs, latestEscrow, currentTime>>
    /\ UNCHANGED resolverVars

ScriptNext ==
    \/ StartCall
    \/ Connected
    \/ Responded
    \/ SubmittedAndValidated
    \/ TxResponded
    \/ FromSeedOrSign
    \/ Build
    \/ Guard
    \/ Validate
    \/ RawTransactions
    \/ HashSignedTxLoop
    \/ NoHashes
    \/ CallGetBatchTxStatus
    \/ Issue
    \/ AwaitAll
    \/ \E i \in 1..MaxRaw : Settle(i)
    \/ PromiseAll
    \/ ReturnGetBatchTxStatus
    \/ FailedTxsCheck
    \/ ReturnTrue
    \/ Finally
    \/ Disconnected
    \/ EntryPoint
    \/ AccountNFTsResponded
    \/ LatestNFTs
    \/ AccountObjectsResponded
    \/ NoEscrowFound
    \/ RippleTimeToISOTime
    \/ ReadClock
    \/ TimeCheck
    \/ ConditionCheck

ScriptSpec == ScriptInit /\ [][ScriptNext]_vars

\* ------------------------------------------------------------------- claims
\* The outcome of the lookup at position i of the input list.
OutcomeAt(i) == ledger[innerTxHashes[i].hash]
Settled(i) == i \in 1..Len(promises) /\ promises[i].state # "pending"

\* C1: whatever the order in which the lookups complete, the returned list has
\* one record per input pair, and record i carries the hash and the index of
\* input pair i.
C1_OrderPreserved ==
    pc = "returned" =>
        /\ Len(results) = N
        /\ \A i \in 1..N :
            /\ results[i].hash = innerTxHashes[i].hash
            /\ results[i].index = innerTxHashes[i].index

\* Three pairs, indexes out of order, a duplicate pair, a failed lookup, and the
\* first lookup completing last.
C1_Witness ==
    /\ pc = "returned"
    /\ N = 3
    /\ innerTxHashes[1].index > innerTxHashes[2].index
    /\ innerTxHashes[1] = innerTxHashes[3]
    /\ lastSettled = 1
    /\ \E i \in 1..N : ~results[i].successful

\* C2: a lookup that throws yields {successful: false, status: "not validated"}
\* for its own pair, no promise is ever rejected, and the record of every pair
\* is the one its own lookup alone determines, whatever the other lookups did.
C2_FailureIsolation ==
    /\ pc # "rejected"
    /\ \A i \in 1..Len(promises) : Settled(i) =>
        /\ promises[i].state = "fulfilled"
        /\ OutcomeAt(i).settle = "reject" =>
              /\ promises[i].value.successful = FALSE
              /\ promises[i].value.status = JSString("not validated")
              /\ promises[i].value.hash = innerTxHashes[i].hash
              /\ promises[i].value.index = innerTxHashes[i].index
        /\ promises[i].value = TryOrCatch(innerTxHashes[i], OutcomeAt(i))
        /\ pc = "returned" => results[i] = promises[i].value

\* The second of three lookups threw and settled first; the other two, of
\* different indexes, answered tesSUCCESS.
C2_Witness ==
    /\ pc = "returned"
    /\ N = 3
    /\ OutcomeAt(2).settle = "reject"
    /\ results[2].status = JSString("not validated")
    /\ results[1].successful
    /\ results[3].successful
    /\ results[1].index # results[3].index
    /\ lastSettled = 3

\* The response of lookup i exposes a result code that is a string.
ExposesCode(i) ==
    /\ OutcomeAt(i).settle = "resolve"
    /\ OutcomeAt(i).hasResult
    /\ OutcomeAt(i).meta.type = "object"
    /\ "TransactionResult" \in OutcomeAt(i).meta.keys
    /\ OutcomeAt(i).meta.TransactionResult.type = "string"

\* C3: when the response metadata exposes a result code, the record's status is
\* that code, and successful is true exactly for 'tesSUCCESS'.
C3_SuccessClassification ==
    \A i \in 1..Len(promises) : (Settled(i) /\ ExposesCode(i)) =>
        /\ promises[i].value.status = OutcomeAt(i).meta.TransactionResult
        /\ promises[i].value.successful
             <=> (OutcomeAt(i).meta.TransactionResult.value = "tesSUCCESS")
        /\ pc = "returned" => results[i] = promises[i].value

\* The scenario of the specification: AAA succeeded, BBB failed with a tec code.
C3_Witness ==
    /\ pc = "returned"
    /\ N = 2
    /\ innerTxHashes[1] = [hash |-> "AAA", index |-> 1]
    /\ innerTxHashes[2] = [hash |-> "BBB", index |-> 2]
    /\ results[1].successful /\ results[1].status = JSString("tesSUCCESS")
    /\ ~results[2].successful /\ results[2].status = JSString("tecUNFUNDED_PAYMENT")

\* The lookup of position i returned a result without a usable result code:
\* no metadata object, or a metadata object whose TransactionResult is missing
\* or is not a string.
NoUsableCode(i) ==
    /\ OutcomeAt(i).settle = "resolve"
    /\ OutcomeAt(i).hasResult
    /\ ~ExposesCode(i)

\* C4: a lookup that returns without throwing, with no parseable metadata
\* object or with a missing or malformed result code, yields
\* {successful: false, status: "unknown"}.
C4_MissingMetadata ==
    \A i \in 1..Len(promises) : (Settled(i) /\ NoUsableCode(i)) =>
        /\ promises[i].value.successful = FALSE
        /\ promises[i].value.status = JSString("unknown")

\* C5: no promise of a callback is rejected and getBatchTxStatus never rejects;
\* once every lookup has settled the call can resolve, and it resolves with a
\* list of the input's length whose records have all four fields.
C5_NoAggregateFailure ==
    /\ pc # "rejected"
    /\ \A i \in 1..Len(promises) : promises[i].state # "rejected"
    /\ (pc = "awaiting" /\ \A i \in 1..N : Settled(i)) => ENABLED PromiseAll
    /\ pc = "returned" =>
        /\ Len(results) = N
        /\ \A i \in 1..N :
            /\ DOMAIN results[i] = {"hash", "index", "successful", "status"}
            /\ results[i].successful \in BOOLEAN
            /\ results[i].status.type # "undefined"

\* Every one of three lookups threw, and the call still returned three records.
C5_Witness ==
    /\ pc = "returned"
    /\ N = 3
    /\ \A i \in 1..N : OutcomeAt(i).settle = "reject"
    /\ Len(results) = 3

\* One lookup never completes and every other lookup has settled.
OnlyHungPending ==
    /\ hung # 0
    /\ N >= 2
    /\ pc = "awaiting"
    /\ \A j \in 1..N : j # hung => Settled(j)

\* C6 as claimed: a lookup that never completes does not block the delivery of
\* the sibling results, so once the siblings have settled the call can return.
C6_SiblingsDelivered == OnlyHungPending => ENABLED PromiseAll

\* C6 as amended: a lookup that is slow or never completes neither keeps a
\* sibling lookup from settling nor alters a sibling's record, but nothing is
\* delivered, the sibling results included, until that lookup has settled.
C6_SiblingsSettleButWait ==
    /\ \A j \in 1..Len(promises) :
        /\ (pc = "awaiting" /\ ~Settled(j) /\ j # hung) => ENABLED Settle(j)
        /\ Settled(j) =>
            /\ promises[j].state = "fulfilled"
            /\ promises[j].value = TryOrCatch(innerTxHashes[j], OutcomeAt(j))
    /\ (\E i \in 1..N : ~Settled(i)) =>
        /\ pc \notin {"returned", "rejected"}
        /\ results = <<>>
        /\ ~ENABLED PromiseAll
    /\ hung # 0 => calls = <<>>

\* The second of three lookups never completes, the other two have settled,
\* and nothing has been returned.
C6_Witness ==
    /\ OnlyHungPending
    /\ N = 3
    /\ hung = 2
    /\ Settled(1) /\ Settled(3)
    /\ results = <<>>

\* C7: the call returns only after each of the N lookups has settled; when
\* every lookup settles it returns, and when one never settles it never does.
C7_NoTimeout ==
    /\ [](pc = "returned" => (Len(promises) = N /\ \A i \in 1..N : Settled(i)))
    /\ (hung = 0) => <>(pc = "returned")
    /\ (hung # 0) => [](pc # "returned" /\ calls = <<>>)

\* Three lookups, none of them hung, all settled, and the call has returned.
C7_Witness ==
    /\ pc = "returned"
    /\ hung = 0
    /\ N = 3
    /\ \A i \in 1..N : Settled(i)
    /\ Len(calls) = 1

\* The number of calls of getBatchTxStatus started so far.
Started == Len(calls) + (IF pc = "returned" THEN 0 ELSE 1)

\* C8: every call hands exactly one 'tx' request per input pair to the client,
\* in input order and carrying that pair's hash; a failed lookup is not
\* requested again; and a settled record is the one of its own lookup.
C8_OneRequestPerPair ==
    /\ Len(sent) = (Started - 1) * N + (next - 1)
    /\ Len(promises) = next - 1
    /\ pc \in {"awaiting", "returned"} => Len(sent) = Started * N
    /\ \A k \in 1..Len(sent) :
        sent[k] = [command |-> "tx",
                   transaction |-> innerTxHashes[((k - 1) % N) + 1].hash]
    /\ \A j \in 1..Len(promises) : Settled(j) =>
        promises[j].value = TryOrCatch(innerTxHashes[j], OutcomeAt(j))

\* Two pairs with the same hash, both lookups failed: two requests, no more.
C8_Witness ==
    /\ pc = "returned"
    /\ Len(calls) = 1
    /\ N = 2
    /\ innerTxHashes[1].hash = innerTxHashes[2].hash
    /\ \A i \in 1..N : results[i].status = JSString("not validated")
    /\ Len(sent) = 2
    /\ sent[1] = sent[2]

\* C9: no response is consumed before all N requests are issued, the issue of
\* a request never waits for a lookup to complete, and the pending lookups may
\* complete in any order.
C9_ConcurrentDispatch ==
    /\ pc = "mapping" => \A i \in 1..Len(promises) : promises[i].state = "pending"
    /\ (\E i \in 1..Len(promises) : Settled(i)) => Len(promises) = N
    /\ (pc = "mapping" /\ next <= N) => ENABLED Issue
    /\ pc = "awaiting" =>
        \A i \in 1..N : (~Settled(i) /\ i # hung) => ENABLED Settle(i)

\* All three requests are out and the last one issued completed first.
C9_Witness ==
    /\ pc = "awaiting"
    /\ N = 3
    /\ Len(sent) = 3
    /\ Settled(3)
    /\ ~Settled(1) /\ ~Settled(2)

\* C10: only 'tx' requests are issued, no step changes the ledger or the input
\* list, and a second call with the same list returns the same list.
C10_ReadOnlyIdempotent ==
    /\ [](/\ \A k \in 1..Len(sent) : sent[k].command = "tx"
          /\ Len(calls) = 2 => calls[1] = calls[2])
    /\ [][ledger' = ledger /\ innerTxHashes' = innerTxHashes]_vars

\* Two completed calls on three pairs with mixed results.
C10_Witness ==
    /\ Len(calls) = 2
    /\ pc = "returned"
    /\ N = 3
    /\ calls[1] = calls[2]
    /\ \E i, j \in 1..N : calls[2][i].successful /\ ~calls[2][j].successful
    /\ Len(sent) = 6

\* C11: a record has status "not validated" exactly when the request of its
\* lookup threw; a lookup that got a response never yields "not validated".
C11_NotValidatedIffThrew ==
    \A i \in 1..Len(promises) : Settled(i) =>
        (promises[i].value.status = JSString("not validated")
            <=> OutcomeAt(i).settle = "reject")

\* ------------------------------------------------------ claims on the scripts
\* The number of times step n was started.
Count(n) == Cardinality({k \in 1..Len(trace) : trace[k] = n})

\* The positions of step n in the trace.
At(n) == {k \in 1..Len(trace) : trace[k] = n}

\* C12: every script function calls client.disconnect() exactly once on every
\* exit path (return true, early return false, a throw, also before or during
\* connect), and nothing is asked of the client after disconnect.
C12_DisconnectExactlyOnce ==
    /\ disconnects = Count("disconnect")
    /\ disconnects <= 1
    /\ phase = "done" => disconnects = 1 /\ client = "disconnected"
    /\ ret \in {"true", "false"} <=> phase \in {"finally", "disconnecting", "done"}
    /\ disconnects = 1 =>
            /\ trace[Len(trace)] = "disconnect"
            /\ pc \notin {"mapping", "awaiting"}
            /\ phase \in {"disconnecting", "done"}

\* A script whose Wallet.fromSeed threw before connect has returned false
\* after disconnecting.
C12_Witness ==
    /\ phase = "done"
    /\ ret = "false"
    /\ Count("connect") = 0
    /\ trace = <<"fromSeed", "disconnect">>
    /\ disconnects = 1

\* The hashes of the inner transactions as the ledger returned them in
\* RawTransactions, and of the local innerTransactions objects.
RecordedHashes ==
    {HashSignedTx(batchTxData.entries[i].RawTransaction) :
        i \in {j \in 1..Len(batchTxData.entries) :
                    batchTxData.entries[j].kind = "signed"}}
LocalHashes ==
    {HashSignedTx(innerTransactions[i]) : i \in 1..Len(innerTransactions)}

\* C13: in every batch script the hashes handed to getBatchTxStatus come only
\* from the RawTransactions of the response to the 'tx' request for the outer
\* batch, which is issued after submitAndWait has returned; none is the hash
\* of a local innerTransactions object.
C13_HashesFromLedgerRecord ==
    script \in BatchScripts =>
        /\ \A k \in 1..Len(innerTxHashes) :
                /\ innerTxHashes[k].hash \in RecordedHashes
                /\ innerTxHashes[k].hash \notin LocalHashes
        /\ \A k \in 1..Len(sent) : sent[k].transaction \in RecordedHashes
        /\ \A k \in At("tx") :
                /\ Len(submitted) >= 1
                /\ \E j \in At("submitAndWait") : j < k
        /\ \A k \in At("hashSignedTx") :
                /\ batchTxData.settle = "resolve"
                /\ \E j \in At("tx") : j < k

\* A batch script waits for the lookups of two inner transactions whose hashes
\* it computed from the response to the 'tx' request.
C13_Witness ==
    /\ script \in BatchScripts
    /\ Step = "getBatchTxStatus"
    /\ pc = "awaiting"
    /\ Len(innerTxHashes) = 2
    /\ Len(sent) = 2
    /\ {sent[1].transaction, sent[2].transaction} = RecordedHashes

\* Step n was started at position k of the trace, right after step m.
Follows(k, ms) == k > 1 /\ trace[k - 1] \in ms

\* C14: every non-batch script runs the chain connect, build, autofill, sign,
\* submitAndWait, disconnect strictly one step after the other: at most one
\* SDK call is in flight, a step starts only when the one before it is over,
\* and nothing is asked of the client before connect has completed.
\* (createEscrow and the escrow finish and cancel scripts hand the wallet to
\* submitAndWait, which autofills and signs.)
C14_SequentialChain ==
    script \in Scripts \ BatchScripts =>
        /\ inflight \in {0, 1}
        /\ inflight = 1 <=> phase \in {"awaiting", "disconnecting"}
        /\ phase = "awaiting" /\ Step # "connect" => client = "connected"
        /\ \A k \in 1..Len(trace) :
                trace[k] \in Awaited \ {"connect"} => \E j \in At("connect") : j < k
        /\ \A k \in At("autofill") : Follows(k, {"build"})
        /\ \A k \in At("sign") : Follows(k, {"autofill"})
        /\ \A k \in At("submitAndWait") :
                IF script \in {"createEscrow"} \cup FinishScripts \cup CancelScripts
                THEN Follows(k, {"build", "fromSeed", "Condition"})
                ELSE Follows(k, {"sign"})
        /\ \A k \in At("disconnect") : k = Len(trace)

\* sendXRP waits for submitAndWait, its only call in flight, after connect,
\* build, autofill and sign.
C14_Witness ==
    /\ script = "sendXRP"
    /\ phase = "awaiting"
    /\ inflight = 1
    /\ client = "connected"
    /\ trace = <<"fromSeed", "connect", "build", "autofill", "sign", "submitAndWait">>

\* The result code of a response as the claim reads it: the TransactionResult
\* of an object meta, 'unknown' when there is none.
CodeAvailable(meta) == meta.type = "object" /\ HasKey(meta, "TransactionResult")
CodeOrUnknown(meta) ==
    IF CodeAvailable(meta) THEN meta.TransactionResult.value ELSE "unknown"

\* C15: validateTransactionResult returns normally exactly when meta is an
\* object whose TransactionResult is 'tesSUCCESS'; for every other response
\* (another code, a string, undefined or null meta, no TransactionResult) it
\* throws an Error with the message 'Transaction failed: <code>', <code>
\* being 'unknown' when there is no code.
C15_ValidateThrowsTransactionFailed ==
    trace # <<>> /\ trace[Len(trace)] = "validateTransactionResult" =>
        IF CodeAvailable(lastResult)
            /\ lastResult.TransactionResult = JSString("tesSUCCESS")
        THEN validated = Returned
        ELSE validated =
                Thrown("Error", "Transaction failed: " \o CodeOrUnknown(lastResult))

\* Every record getBatchTxStatus returned to the script is successful.
AllSuccessful == \A i \in 1..Len(innerTxStatuses) : innerTxStatuses[i].successful

\* C16: batchAllOrNothing, once getBatchTxStatus has returned, returns true
\* exactly when every record has successful = true, and returns false right
\* away when a record is unsuccessful, 'unknown' and 'not validated' included.
C16_AllOrNothingVerdict ==
    script = "batchAllOrNothing" =>
        /\ ret = "true" => Count("failedTxs") = 1 /\ AllSuccessful
        /\ Count("failedTxs") = 1 /\ ret # "none" =>
                /\ ret = "true" <=> AllSuccessful
                /\ ret = "false" <=> Count("returnTrue") = 0
                /\ \A i \in 1..Len(innerTxStatuses) :
                        innerTxStatuses[i].status # JSString("tesSUCCESS")
                            => ret = "false"

\* batchAllOrNothing returned false for one record 'unknown' and one
\* 'not validated'.
C16_Witness ==
    /\ script = "batchAllOrNothing"
    /\ phase = "done"
    /\ ret = "false"
    /\ Len(innerTxStatuses) = 2
    /\ innerTxStatuses[1].status = JSString("unknown")
    /\ innerTxStatuses[2].status = JSString("not validated")
    /\ trace[Len(trace) - 1] = "failedTxs"

\* C17: in every batch script the index of a descriptor is the 1-based
\* position of its inner transaction in the recorded RawTransactions list,
\* also after skipped entries: indexes are >= 1 and strictly increasing, the
\* records carry them unchanged, and innerTransactions[index - 1] (counting
\* from 0) is the local transaction the record refers to.
C17_IndexIsPosition ==
    script \in BatchScripts =>
        /\ \A k \in 1..Len(innerTxHashes) :
            LET d == innerTxHashes[k]
            IN  /\ d.index >= 1
                /\ d.index \in 1..Len(batchTxData.entries)
                /\ batchTxData.entries[d.index].kind = "signed"
                /\ d.hash = HashSignedTx(batchTxData.entries[d.index].RawTransaction)
                /\ k > 1 => innerTxHashes[k - 1].index < d.index
                /\ d.index \in 1..Len(innerTransactions)
                /\ innerTransactions[d.index].payload
                        = batchTxData.entries[d.index].RawTransaction.payload
        /\ \A k \in 1..Len(innerTxStatuses) :
                /\ innerTxStatuses[k].index = innerTxHashes[k].index
                /\ innerTxStatuses[k].hash = innerTxHashes[k].hash

\* The first entry of RawTransactions was skipped: the only descriptor, and
\* the record returned for it, carry index 2.
C17_Witness ==
    /\ script \in BatchScripts
    /\ Len(batchTxData.entries) = 2
    /\ batchTxData.entries[1].kind # "signed"
    /\ Len(innerTxHashes) = 1
    /\ innerTxHashes[1].index = 2
    /\ Len(innerTxStatuses) = 1
    /\ innerTxStatuses[1].index = 2

\* The transaction submitAndWait returned last was validated as tesSUCCESS.
OuterSuccess ==
    /\ Len(submitted) >= 1
    /\ CodeAvailable(lastResult)
    /\ lastResult.TransactionResult = JSString("tesSUCCESS")

\* C18: in every batch script the order is submitAndWait,
\* validateTransactionResult, the 'tx' request for the outer hash,
\* getBatchTxStatus; when the outer result is not tesSUCCESS the script
\* returns false and issues neither the 'tx' request nor an inner lookup.
C18_InnerCheckAfterOuterValidation ==
    script \in BatchScripts =>
        /\ \A k \in At("validateTransactionResult") : Follows(k, {"submitAndWait"})
        /\ \A k \in At("tx") :
                /\ Follows(k, {"validateTransactionResult"})
                /\ validated = Returned
                /\ OuterSuccess
        /\ \A k \in At("getBatchTxStatus") : \E j \in At("tx") : j < k
        /\ sent # <<>> => Count("getBatchTxStatus") = 1 /\ OuterSuccess
        /\ Len(submitted) = 1 /\ ~OuterSuccess =>
                /\ Count("tx") = 0
                /\ Count("getBatchTxStatus") = 0
                /\ sent = <<>>
                /\ Count("validateTransactionResult") = 1 => ret = "false"

\* A batch script whose outer batch was validated as tecUNFUNDED_PAYMENT has
\* returned false right after validateTransactionResult.
C18_Witness ==
    /\ script \in BatchScripts
    /\ phase = "done"
    /\ ret = "false"
    /\ Len(submitted) = 1
    /\ lastResult.TransactionResult = JSString("tecUNFUNDED_PAYMENT")
    /\ validated = Thrown("Error", "Transaction failed: tecUNFUNDED_PAYMENT")
    /\ trace[Len(trace) - 1] = "validateTransactionResult"
    /\ sent = <<>>

\* The number of records getBatchTxStatus returned as successful.
SuccessfulRecords ==
    Cardinality({i \in 1..Len(innerTxStatuses) : innerTxStatuses[i].successful})

\* C19: batchAllOrNothing returns true only if every inner transaction of the
\* recorded RawTransactions list was looked up and found tesSUCCESS: the
\* number of successful records equals the length of RawTransactions, and no
\* entry was skipped for a missing RawTransaction or a failed hash computation.
C19_TrueOnlyIfEveryRecordedSucceeded ==
    script = "batchAllOrNothing" /\ ret = "true" =>
        /\ SuccessfulRecords = Len(batchTxData.entries)
        /\ \A i \in 1..Len(batchTxData.entries) :
                batchTxData.entries[i].kind = "signed"

\* Transaction k the script submitted was validated with tesSUCCESS.
ValidatedSuccess(k) ==
    /\ CodeAvailable(submitted[k])
    /\ submitted[k].TransactionResult = JSString("tesSUCCESS")

\* C20: every script function returns true only if every transaction it
\* submitted was validated with tesSUCCESS; when a submitted transaction was
\* validated with another code the function returns false.
C20_TrueOnlyIfSubmittedSucceeded ==
    /\ ret = "true" => \A k \in 1..Len(submitted) : ValidatedSuccess(k)
    /\ phase = "done" /\ (\E k \in 1..Len(submitted) : ~ValidatedSuccess(k))
            => ret = "false"

MintedIDs ==
    {accountNFTs[k].NFTokenID : k \in 1..Len(accountNFTs)} \ {HeldBefore.NFTokenID}

\* C22: batchNFTMintAndBurn submits the burn batch only after the mint batch
\* was validated as tesSUCCESS, and the NFTs it burns are exactly the NFTs the
\* mint batch minted, never one the account held before, also when some of
\* the inner mints failed.
C22_BurnsWhatItMinted ==
    script = "batchNFTMintAndBurn" /\ Count("submitAndWait") = 2 =>
        /\ ValidatedSuccess(1)
        /\ {nftokenIDs[k] : k \in 1..Len(nftokenIDs)} = MintedIDs

\* The time test of the running escrow script has been made.
TimeChecked ==
    Count("currentTime < FinishAfter") + Count("!isNaN && currentTime < FinishAfter")
        + Count("currentTime < CancelAfter") >= 1

\* The running escrow script has called submitAndWait.
SubmitCalled == Count("submitAndWait") >= 1

FinishAfterOf(e) == NumberOf(e.FinishAfter)
CancelAfterOf(e) == NumberOf(e.CancelAfter)

ConditionChecked == Count("Condition") + Count("!Condition") >= 1

ReportingScripts == {"batchOnlyOne", "batchUntilFailure", "batchIndependent"}

\* getBatchTxStatus has returned its records to the running script.
StatusesReturned ==
    /\ Count("getBatchTxStatus") >= 1
    /\ pc = "idle"
    /\ thrown # "getBatchTxStatus"

\* C26: what batchOnlyOne, batchUntilFailure and batchIndependent return does
\* not depend on the status records: once getBatchTxStatus has returned, the
\* script returns true whatever the records say (all successful, some or all
\* failed, unknown or not validated), and it never looks at failedTxs.
C26_ReturnIgnoresInnerResults ==
    script \in ReportingScripts =>
        /\ Count("failedTxs") = 0
        /\ StatusesReturned => ret # "false"
        /\ StatusesReturned /\ phase = "done" => ret = "true"

\* batchIndependent returned true although no record is successful.
C26_Witness ==
    /\ script = "batchIndependent"
    /\ StatusesReturned
    /\ phase = "done"
    /\ ret = "true"
    /\ Len(innerTxStatuses) = 2
    /\ innerTxStatuses[1].status = JSString("unknown")
    /\ innerTxStatuses[2].status = JSString("not validated")

\* The RawTransactions test has been made on a response without a
\* RawTransactions array.
NoRawTransactions ==
    /\ Count("RawTransactions") >= 1
    /\ batchTxData.shape \in {"noTxJson", "notArray"}

\* The hash loop has run and computed no hash.
NoHashComputed ==
    /\ Count("innerTxHashes.length") >= 1
    /\ Len(innerTxHashes) = 0

\* C27: a batch script never calls getBatchTxStatus with an empty list, and
\* it returns false without an inner lookup when RawTransactions is missing
\* or not an array and when the loop computed no hash.
C27_NoLookupWithoutHashes ==
    script \in BatchScripts =>
        /\ Count("getBatchTxStatus") >= 1 => Len(innerTxHashes) >= 1
        /\ sent # <<>> => Count("getBatchTxStatus") >= 1
        /\ NoRawTransactions \/ NoHashComputed =>
                /\ ret = "false"
                /\ Count("getBatchTxStatus") = 0
                /\ sent = <<>>
                /\ Count("returnTrue") = 0

\* batchNFTBurn met a RawTransactions array whose entries gave no hash.
C27_Witness ==
    /\ script = "batchNFTBurn"
    /\ NoHashComputed
    /\ Len(batchTxData.entries) = 2
    /\ phase = "done"
    /\ ret = "false"
    /\ sent = <<>>

\* The record getBatchTxStatus gives for a lookup that returned the response
\* validateTransactionResult was called with.
SameResponseLookedUp ==
    TryOrCatch([hash |-> "AAA", index |-> 1], Resolved(lastResult))

\* C28: validateTransactionResult and getBatchTxStatus agree on every
\* response: validateTransactionResult returns without throwing exactly when
\* getBatchTxStatus marks a lookup that returned the same response as
\* successful.
C28_ValidateAgreesWithStatus ==
    /\ trace # <<>> /\ trace[Len(trace)] = "validateTransactionResult" =>
            (~validated.threw <=> SameResponseLookedUp.successful)
    /\ \A m \in Metas :
            ~ValidateTransactionResult(m).threw
                <=> TryOrCatch([hash |-> "BBB", index |-> 2], Resolved(m)).successful

\* The two disagree on the path, not on the verdict, for a null meta: the one
\* throws a TypeError, the other reports 'unknown'.
C28_Witness ==
    /\ trace # <<>> /\ trace[Len(trace)] = "validateTransactionResult"
    /\ lastResult = MetaNull
    /\ validated.threw
    /\ validated.name = "TypeError"
    /\ ~SameResponseLookedUp.successful
    /\ SameResponseLookedUp.status = JSString("unknown")
====
